---- MODULE Spec2Model ----
(***************************************************************************)
(* A model of gQuery (src/gquery.js): the selector parser (parseSelector), *)
(* the adapter, the Node / Collection / Selection wrappers and the matcher *)
(* (Locator.find, Adapter.findMatches, LocatorPart predicates).            *)
(*                                                                         *)
(* JavaScript strings are sequences of one-character strings, so that the  *)
(* tokenizer's regular expression and the String() coercion act on        *)
(* characters.  Offsets into a string are 0-based where the source's are   *)
(* (match.index, lastIndex); positions into a sequence are 1-based.        *)
(***************************************************************************)
EXTENDS Integers, Sequences, FiniteSets, TLC

VARIABLES
    selector,   \* the string handed to parseSelector
    scan,       \* parseSelector's locals: lastIndex, direct, parts, outcome
    pieces,     \* how the caller assembled `selector` (input bookkeeping)
    data,       \* the caller's records: scalar fields and array fields
    context,    \* the array of top-level records handed to gQuery
    options,    \* the options handed to the Adapter
    nodes,      \* the Node wrappers built by wrapContext
    locator,    \* the Locator under use: its parts, or that construction threw
    target,     \* the seed handed to Locator.find
    found,      \* what Locator.find produced: a Selection's nodes, or a throw
    call,       \* the last call of an Adapter accessor: its method and result
    edit        \* the last remove / appendTo: its outcome, and the state before it

vars == <<selector, scan, pieces, data, context, options, nodes, locator, target, found, call,
          edit>>

(***************************************************************************)
(* Bounds of the model.                                                    *)
(***************************************************************************)
MaxPieces == 3      \* pieces a parsed selector is assembled from
MaxNodes == 3       \* records in the caller's forest
MaxParts == 2       \* parts of a selector run against a forest
MaxEdits == 2       \* remove and appendTo calls in a row

(***************************************************************************)
(* Characters and strings.                                                 *)
(***************************************************************************)
Max(S) == CHOOSE x \in S : \A y \in S : y <= x
Min(S) == CHOOSE x \in S : \A y \in S : x <= y

\* [\w\d]: letters, digits and the underscore
WordChars ==
    {"a", "b", "c", "d", "e", "f", "g", "h", "i", "j", "k", "l", "m", "n", "o", "p", "q",
     "r", "s", "t", "u", "v", "w", "x", "y", "z",
     "A", "B", "C", "D", "E", "F", "G", "H", "I", "J", "K", "L", "M", "N", "O", "P", "Q",
     "R", "S", "T", "U", "V", "W", "X", "Y", "Z",
     "0", "1", "2", "3", "4", "5", "6", "7", "8", "9", "_"}

IsWord(c) == c \in WordChars

\* (a variant that takes the comma for a name character)
IsNameCharOrComma(c) == IsWord(c) \/ c \in {"-", ","}

\* [\w\d\-]
IsNameChar(c) == IsWord(c) \/ c = "-"

\* . in a JavaScript regular expression: any character but a line terminator
IsDot(c) == c \notin {"\n", "\r"}

\* the longest run of characters of a class starting at i: the first position
\* after it (i itself when the run is empty)
RECURSIVE RunEnd(_, _, _)
RunEnd(s, i, name) ==
    IF i <= Len(s) /\ (IF name THEN IsNameChar(s[i]) ELSE IsWord(s[i]))
    THEN RunEnd(s, i + 1, name)
    ELSE i

\* s.substring(from, to) with 0-based from (inclusive) and to (exclusive)
Substring(s, from, to) == SubSeq(s, from + 1, to)

(***************************************************************************)
(* parseSelector.  The tokenizer's pattern is an optional sigil (# or .)    *)
(* followed by either a run of name characters with an optional bracket    *)
(* suffix, or the single character >.  The bracket suffix, which is also   *)
(* the condition pattern, is: [ then a run of word characters, then =,     *)
(* then a double quote, then any characters (greedy), then a double quote  *)
(* and ].                                                                  *)
(***************************************************************************)
NoBracket == [ok |-> FALSE, eq |-> 0, close |-> 0, end |-> 0]

\* the bracket suffix tried at position k: the property is s[k+1 .. eq-1], the
\* greedy .* runs to the LAST quote-and-] it can reach, the value is
\* s[eq+2 .. close-1]
BracketAt(s, k) ==
    IF k > Len(s) \/ s[k] # "["
    THEN NoBracket
    ELSE LET m == RunEnd(s, k + 1, FALSE)
         IN  IF m = k + 1 \/ m + 1 > Len(s) \/ s[m] # "=" \/ s[m + 1] # "\""
             THEN NoBracket
             ELSE LET closers == {e \in (m + 2)..(Len(s) - 1) :
                                    /\ s[e] = "\""
                                    /\ s[e + 1] = "]"
                                    /\ \A x \in (m + 2)..(e - 1) : IsDot(s[x])}
                  IN  IF closers = {}
                      THEN NoBracket
                      ELSE [ok |-> TRUE, eq |-> m, close |-> Max(closers),
                            end |-> Max(closers) + 2]

\* the group (name run with optional bracket suffix, or >) tried at position j: the first position after the
\* match, 0 when it fails
GroupEnd(s, j) ==
    IF j > Len(s) THEN 0
    ELSE IF IsNameChar(s[j])
         THEN LET k == RunEnd(s, j, TRUE)
                  b == BracketAt(s, k)
              IN  IF b.ok THEN b.end ELSE k
         ELSE IF s[j] = ">" THEN j + 1 ELSE 0

\* the whole pattern tried at position i: the optional sigil is taken when the
\* group matches after it
MatchEnd(s, i) ==
    IF s[i] \in {"#", "."} /\ GroupEnd(s, i + 1) # 0
    THEN GroupEnd(s, i + 1)
    ELSE GroupEnd(s, i)

NoMatch == [found |-> FALSE, index |-> 0, lastIndex |-> 0, text |-> <<>>]

\* the leftmost position at or after i where the pattern matches, 0 when none
RECURSIVE FirstMatch(_, _)
FirstMatch(s, i) ==
    IF i > Len(s) THEN 0
    ELSE IF MatchEnd(s, i) # 0 THEN i ELSE FirstMatch(s, i + 1)

\* matcher.exec(selector) with the pattern's lastIndex: the leftmost match at or
\* after lastIndex; index is 0-based as match.index is
Exec(s, lastIndex) ==
    LET i == FirstMatch(s, lastIndex + 1)
    IN  IF i = 0
        THEN NoMatch
        ELSE LET end == MatchEnd(s, i)
             IN  [found |-> TRUE, index |-> i - 1, lastIndex |-> end - 1,
                  text |-> SubSeq(s, i, end - 1)]

NoCondition == <<>>

\* value.match(condition pattern): the leftmost match in value
ConditionMatch(value) ==
    LET starts == {q \in 1..Len(value) : BracketAt(value, q).ok}
    IN  IF starts = {}
        THEN [found |-> FALSE, index |-> 0, property |-> <<>>, value |-> <<>>]
        ELSE LET q == Min(starts)
                 b == BracketAt(value, q)
             IN  [found |-> TRUE, index |-> q - 1,
                  property |-> SubSeq(value, q + 1, b.eq - 1),
                  value |-> SubSeq(value, b.eq + 2, b.close - 1)]

\* the part type the leading character selects
SigilTypeSwapped(c) == IF c = "#" THEN "class" ELSE IF c = "." THEN "id" ELSE "name"

SigilType(c) == IF c = "#" THEN "id" ELSE IF c = "." THEN "class" ELSE "name"

\* (a variant that leaves the bracket suffix in the value)
PartOptionsKeepsSuffix(text, direct) ==
    LET c0 == text[1]
        value == IF c0 \in {"#", "."} THEN Substring(text, 1, Len(text)) ELSE text
        cm == ConditionMatch(value)
    IN  [source |-> text,
         type |-> SigilType(c0),
         direct |-> direct,
         value |-> value,
         condition |-> IF cm.found
                       THEN <<[type |-> "equality", property |-> cm.property,
                               value |-> cm.value]>>
                       ELSE NoCondition]

\* partOptions for a token that is not '>'
PartOptions(text, direct) ==
    LET c0 == text[1]
        type == SigilType(c0)
        value == IF c0 \in {"#", "."} THEN Substring(text, 1, Len(text)) ELSE text
        cm == ConditionMatch(value)
    IN  [source |-> text,
         type |-> type,
         direct |-> direct,
         value |-> IF cm.found THEN Substring(value, 0, cm.index) ELSE value,
         condition |-> IF cm.found
                       THEN <<[type |-> "equality", property |-> cm.property,
                               value |-> cm.value]>>
                       ELSE NoCondition]

\* parseSelector's locals before the loop
\* (status is "scanning" inside the loop, "returned" after `return parts`, "threw"
\* after the throw; returned holds what the caller receives: <<parts>> after a
\* return, nothing after a throw; errorAt is the match.index the message carries)
ScanStart ==
    [lastIndex |-> 0, direct |-> FALSE, parts |-> <<>>, status |-> "scanning",
     errorAt |-> -1, returned |-> <<>>]

\* (a variant that lets a second '>' pass)
ScanStepLenient(s, st) ==
    LET match == Exec(s, st.lastIndex)
    IN  IF ~match.found
        THEN [st EXCEPT !.status = "returned", !.returned = <<st.parts>>]
        ELSE IF match.text = <<">">>
             THEN [st EXCEPT !.direct = TRUE, !.lastIndex = match.lastIndex]
             ELSE [st EXCEPT !.parts = Append(st.parts, PartOptions(match.text, st.direct)),
                             !.direct = FALSE,
                             !.lastIndex = match.lastIndex]

\* (a variant that leaves the pending flag set after a part)
ScanStepCarries(s, st) ==
    LET match == Exec(s, st.lastIndex)
    IN  IF ~match.found
        THEN [st EXCEPT !.status = "returned", !.returned = <<st.parts>>]
        ELSE IF match.text = <<">">>
             THEN IF st.direct
                  THEN [st EXCEPT !.status = "threw", !.errorAt = match.index,
                                  !.lastIndex = match.lastIndex, !.returned = <<>>]
                  ELSE [st EXCEPT !.direct = TRUE, !.lastIndex = match.lastIndex]
             ELSE [st EXCEPT !.parts = Append(st.parts, PartOptions(match.text, st.direct)),
                             !.lastIndex = match.lastIndex]

\* one round of `while (match = matcher.exec(selector))`
ScanStep(s, st) ==
    LET match == Exec(s, st.lastIndex)
    IN  IF ~match.found
        THEN [st EXCEPT !.status = "returned", !.returned = <<st.parts>>]
        ELSE IF match.text = <<">">>
             THEN IF st.direct
                  THEN [st EXCEPT !.status = "threw", !.errorAt = match.index,
                                  !.lastIndex = match.lastIndex, !.returned = <<>>]
                  ELSE [st EXCEPT !.direct = TRUE, !.lastIndex = match.lastIndex]
             ELSE [st EXCEPT !.parts = Append(st.parts, PartOptions(match.text, st.direct)),
                             !.direct = FALSE,
                             !.lastIndex = match.lastIndex]

RECURSIVE ScanRun(_, _)
ScanRun(s, st) == IF st.status # "scanning" THEN st ELSE ScanRun(s, ScanStep(s, st))

\* parseSelector(selector): status "returned" with the parts, or status "threw"
\* with the offset the message carries
ParseSelector(s) == ScanRun(s, ScanStart)

(***************************************************************************)
(* JavaScript values held in record fields, String() and truthiness.       *)
(***************************************************************************)
Undefined == [t |-> "undefined", n |-> 0, s |-> <<>>]
Num(n) == [t |-> "number", n |-> n, s |-> <<>>]
Str(s) == [t |-> "string", n |-> 0, s |-> s]
Bool(b) == [t |-> "boolean", n |-> IF b THEN 1 ELSE 0, s |-> <<>>]

DigitChars == <<"0", "1", "2", "3", "4", "5", "6", "7", "8", "9">>

RECURSIVE Digits(_)
Digits(n) ==
    IF n < 10
    THEN <<DigitChars[n + 1]>>
    ELSE Digits(n \div 10) \o <<DigitChars[(n % 10) + 1]>>

\* String(v)
JSString(v) ==
    CASE v.t = "undefined" -> <<"u", "n", "d", "e", "f", "i", "n", "e", "d">>
      [] v.t = "number" -> Digits(v.n)
      [] v.t = "boolean" -> IF v.n = 1 THEN <<"t", "r", "u", "e">>
                                       ELSE <<"f", "a", "l", "s", "e">>
      [] v.t = "string" -> v.s

\* whether v is truthy
Truthy(v) ==
    CASE v.t = "undefined" -> FALSE
      [] v.t = "number" -> v.n # 0
      [] v.t = "boolean" -> v.n = 1
      [] v.t = "string" -> v.s # <<>>

\* a || b
JSOr(a, b) == IF Truthy(a) THEN a ELSE b

(***************************************************************************)
(* The caller's records.  A record holds scalar fields (name -> value) and *)
(* array fields (name -> sequence of records); a field that is not in the  *)
(* domain is absent and reads as undefined.  Record 0 is the {} that       *)
(* wrapContext makes for an array context.                                 *)
(***************************************************************************)
FId == <<"i", "d">>
FClass == <<"c", "l", "a", "s", "s">>
FClassName == <<"c", "l", "a", "s", "s", "N", "a", "m", "e">>
FName == <<"n", "a", "m", "e">>
FChildren == <<"c", "h", "i", "l", "d", "r", "e", "n">>
FKids == <<"k", "i", "d", "s">>

EmptyRecord == [fields |-> <<>>, arrays |-> <<>>]

\* object[property] for a scalar field
Prop(rec, f) == IF f \in DOMAIN rec.fields THEN rec.fields[f] ELSE Undefined

(***************************************************************************)
(* Adapter: each option is absent or a field-name string.                  *)
(***************************************************************************)
Absent == [kind |-> "absent", field |-> <<>>]
Field(f) == [kind |-> "string", field |-> f]

\* a function given for id, name or class is function(r) { return '<text>'; };
\* a function given for children is function(r) { return r[<field>] || []; }
Function(f) == [kind |-> "function", field |-> f]

\* `other` is an option the Adapter does not know
DefaultOptions ==
    [id |-> Absent, name |-> Absent, class |-> Absent, children |-> Absent, other |-> Absent]

\* overrideMethod: the method is replaced when the option is a function or a
\* string, kept when it is absent
Override(option, rec, default) ==
    CASE option.kind = "function" -> Str(option.field)
      [] option.kind = "string" -> Prop(rec, option.field)
      [] OTHER -> Prop(rec, default)

\* (a variant that reads the name option)
GetIdByName(rec) == Override(options.name, rec, FId)

GetId(rec) == Override(options.id, rec, FId)

GetClass(rec) == Override(options.class, rec, FClass)

GetName(rec) == Override(options.name, rec, FName)

\* an array value a property read can give: undefined, or the records
NoArray == [undefined |-> TRUE, items |-> <<>>]
Array(items) == [undefined |-> FALSE, items |-> items]

\* object[property] for an array field
ArrayProp(rec, f) == IF f \in DOMAIN rec.arrays THEN Array(rec.arrays[f]) ELSE NoArray

\* a || [] for an array value
OrEmpty(a) == IF a.undefined THEN Array(<<>>) ELSE a

\* (a variant whose string override also falls back to [])
GetChildrenOrEmpty(rec) ==
    CASE options.children.kind = "function" -> OrEmpty(ArrayProp(rec, options.children.field))
      [] options.children.kind = "string" -> OrEmpty(ArrayProp(rec, options.children.field))
      [] OTHER -> OrEmpty(ArrayProp(rec, FChildren))

\* getChildren: `node.children || []` by default; node[override] as it is when
\* the option is a string; the function when the option is a function
GetChildren(rec) ==
    CASE options.children.kind = "function" -> OrEmpty(ArrayProp(rec, options.children.field))
      [] options.children.kind = "string" -> ArrayProp(rec, options.children.field)
      [] OTHER -> OrEmpty(ArrayProp(rec, FChildren))

(***************************************************************************)
(* Node wrappers.  gQuery(context, options) wraps every record of the      *)
(* context in one Node; the Node of record r is named r, the root Node     *)
(* (object {}) is named 0.  A Node keeps its parent, its index among the   *)
(* parent's child nodes and its own child nodes, as built at construction. *)
(***************************************************************************)
NoParent == -1
NoIndex == -2

\* Collection(source, ...): createNodes(source || [])
SourceOrEmpty(a) == IF a.undefined THEN <<>> ELSE a.items

\* the position of x in sequence s, 0-based
IndexIn(s, x) == (CHOOSE i \in 1..Len(s) : s[i] = x) - 1

IsIn(s, x) == \E i \in 1..Len(s) : s[i] = x

\* wrapContext for an array context: the root Node with the context as its
\* children, and below it one Node per record (Node -> createChildren ->
\* Collection -> createNodes -> Node ...); a record no array holds gets no Node
\* (its entry is a placeholder nothing refers to)
WrapContext(d, ctx) ==
    LET kids(r) == SourceOrEmpty(GetChildren(d[r]))
        held(r) == {p \in DOMAIN d : p # 0 /\ IsIn(kids(p), r)}
        holder(r) == IF IsIn(ctx, r) THEN 0
                     ELSE IF held(r) = {} THEN NoParent
                     ELSE CHOOSE p \in held(r) : TRUE
    IN  [r \in DOMAIN d |->
            IF r = 0
            THEN [object |-> 0, parent |-> NoParent, index |-> NoIndex, children |-> ctx]
            ELSE [object |-> r, parent |-> holder(r),
                  index |-> IF holder(r) = NoParent THEN NoIndex
                            ELSE IndexIn(IF holder(r) = 0 THEN ctx ELSE kids(holder(r)), r),
                  children |-> kids(r)]]

(***************************************************************************)
(* What a collection holds: a Node, a bare record (a seed handed to        *)
(* Locator.find as an array or a single record is not wrapped), or the     *)
(* value undefined.                                                        *)
(***************************************************************************)
NodeElem(n) == [k |-> "node", r |-> n]
RawElem(r) == [k |-> "record", r |-> r]
UndefinedElem == [k |-> "undefined", r |-> 0]

MapSeq(s, Op(_)) == [i \in 1..Len(s) |-> Op(s[i])]

\* node.id, node.className, node.name: the Node getters go through the adapter;
\* on a bare record they are plain property reads
ElemId(e) ==
    IF e.k = "node" THEN GetId(data[nodes[e.r].object]) ELSE Prop(data[e.r], FId)

ElemClassName(e) ==
    IF e.k = "node" THEN GetClass(data[nodes[e.r].object]) ELSE Prop(data[e.r], FClassName)

ElemName(e) ==
    IF e.k = "node" THEN GetName(data[nodes[e.r].object]) ELSE Prop(data[e.r], FName)

\* node.children: a Node's Collection of child Nodes; on a bare record its
\* children property
ElemChildren(e) ==
    IF e.k = "node"
    THEN Array(MapSeq(nodes[e.r].children, NodeElem))
    ELSE LET a == ArrayProp(data[e.r], FChildren)
         IN  IF a.undefined THEN NoArray ELSE Array(MapSeq(a.items, RawElem))

\* Node.prototype.get: (this.object && this.object[property]) || undefined
NodeGet(n, property) == JSOr(Prop(data[nodes[n].object], property), Undefined)

(***************************************************************************)
(* LocatorPart: the predicate of a part.  A predicate answers "true" or    *)
(* "false", or the call ends in a TypeError ("throw").                     *)
(***************************************************************************)
\* new LocatorPart(adapter, options)
LocatorPart(o) ==
    [source |-> o.source, type |-> o.type, direct |-> o.direct, value |-> o.value,
     condition |-> o.condition]

TruthOf(b) == IF b THEN "true" ELSE "false"

\* getBasePredicate: String(node.id) === value, etc.
BasePredicate(part, e) ==
    IF e.k = "undefined"
    THEN "throw"
    ELSE CASE part.type = "id" -> TruthOf(JSString(ElemId(e)) = part.value)
           [] part.type = "class" -> TruthOf(JSString(ElemClassName(e)) = part.value)
           [] part.type = "name" -> TruthOf(JSString(ElemName(e)) = part.value)

\* applyCondition, 'equality': the base predicate first, then
\* String(node.get(condition.property)) === String(condition.value); a bare
\* record has no get method
ApplyCondition(condition, part, e) ==
    LET base == BasePredicate(part, e)
    IN  IF base # "true" THEN base
        ELSE IF e.k # "node" THEN "throw"
        ELSE TruthOf(JSString(NodeGet(e.r, condition.property)) = condition.value)

\* getPredicate: part.matches(node)
Matches(part, e) ==
    IF part.condition # NoCondition
    THEN ApplyCondition(part.condition[1], part, e)
    ELSE BasePredicate(part, e)

(***************************************************************************)
(* Adapter.findMatches and Locator.find.                                   *)
(***************************************************************************)
NoMatches == [threw |-> FALSE, matches |-> <<>>]

\* findMatches(nodes, recursive, predicate, matches): each node in order; a
\* match is pushed before the node's children are searched; Lazy(undefined)
\* iterates nothing
RECURSIVE FindMatches(_, _, _, _)
FindMatches(es, recursive, part, acc) ==
    IF acc.threw \/ es = <<>>
    THEN acc
    ELSE LET e == Head(es)
             m == Matches(part, e)
         IN  IF m = "throw"
             THEN [acc EXCEPT !.threw = TRUE]
             ELSE LET pushed == IF m = "true"
                                THEN [acc EXCEPT !.matches = Append(acc.matches, e)]
                                ELSE acc
                      below == IF recursive
                               THEN FindMatches(ElemChildren(e).items, TRUE, part, pushed)
                               ELSE pushed
                  IN  FindMatches(Tail(es), recursive, part, below)

\* Lazy(result).map(match.children).flatten().toArray(): a Collection or an
\* array is spliced in, anything else (undefined) stays as one element
RECURSIVE FlattenChildren(_)
FlattenChildren(ms) ==
    IF ms = <<>>
    THEN <<>>
    ELSE LET c == ElemChildren(Head(ms))
         IN  (IF c.undefined THEN <<UndefinedElem>> ELSE c.items) \o FlattenChildren(Tail(ms))

\* a value held in `result`: an array of elements, or a Collection / Selection
\* object with these elements
AsArray(items) == [array |-> TRUE, items |-> items]
AsCollection(items) == [array |-> FALSE, items |-> items]

\* getCollection(source, adapter): a Collection as it is; an array, or a single
\* value put in an array, becomes the nodes of a Selection, unwrapped
GetCollection(t) ==
    CASE t.kind = "collection" -> AsCollection(MapSeq(t.items, NodeElem))
      [] t.kind = "array" -> AsCollection(MapSeq(t.items, RawElem))
      [] t.kind = "single" -> AsCollection(<<RawElem(t.items[1])>>)

\* the each() loop of Locator.find from part i on
RECURSIVE FindLoop(_, _, _)
FindLoop(parts, i, result) ==
    IF i > Len(parts)
    THEN [threw |-> FALSE, result |-> result]
    ELSE LET m == FindMatches(result.items, ~parts[i].direct, parts[i], NoMatches)
         IN  IF m.threw
             THEN [threw |-> TRUE, result |-> AsArray(<<>>)]
             ELSE IF i # Len(parts)
                  THEN FindLoop(parts, i + 1, AsArray(FlattenChildren(m.matches)))
                  ELSE FindLoop(parts, i + 1, AsArray(m.matches))

\* new Selection(nodes, adapter) seen as a sequence (get(i) is nodes[i],
\* length() is nodes.length): the elements of an array; a Collection object has
\* no indexed elements and its length is a method, so each() visits nothing
Selection(result) == IF result.array THEN result.items ELSE <<>>

\* Locator.prototype.find(target)
LocatorFind(parts, t) ==
    LET r == FindLoop(parts, 1, GetCollection(t))
    IN  IF r.threw
        THEN [status |-> "threw", nodes |-> <<>>]
        ELSE [status |-> "returned", nodes |-> Selection(r.result)]

(***************************************************************************)
(* Inputs: selectors assembled from pieces, forests of records.            *)
(***************************************************************************)
RECURSIVE Concat(_)
Concat(ss) == IF ss = <<>> THEN <<>> ELSE Head(ss) \o Concat(Tail(ss))

\* the pieces a selector is assembled from: a part (sigil, name, optional
\* bracketed condition), the combinator >, or text outside the grammar (a comma,
\* a sigil on its own); each piece is followed by a separator
NoSigil == <<>>

PartPiece(sigil, name, condition) ==
    [kind |-> "part", sigil |-> sigil, name |-> name, condition |-> condition]

Equals(property, value) == <<[property |-> property, value |-> value]>>

PieceShapes ==
    {PartPiece(NoSigil, <<"a">>, <<>>),
     PartPiece(<<"#">>, <<"a">>, <<>>),
     PartPiece(<<".">>, <<"b">>, <<>>),
     PartPiece(NoSigil, <<"a">>, Equals(<<"p">>, <<"v">>)),
     PartPiece(<<"#">>, <<"a">>, Equals(<<"q">>, <<>>)),
     PartPiece(<<".">>, <<"b">>, Equals(<<"p">>, <<"0">>)),
     [kind |-> "combinator", sigil |-> NoSigil, name |-> <<">">>, condition |-> <<>>],
     [kind |-> "other", sigil |-> NoSigil, name |-> <<",">>, condition |-> <<>>],
     [kind |-> "other", sigil |-> <<"#">>, name |-> <<>>, condition |-> <<>>]}

Separators == {<<>>, <<" ">>}

Pieces ==
    {[kind |-> sh.kind, sigil |-> sh.sigil, name |-> sh.name, condition |-> sh.condition,
      sep |-> sp] : sh \in PieceShapes, sp \in Separators}

\* single tokens whose condition value holds a space, or a quote and a bracket
LongShapes ==
    {PartPiece(NoSigil, <<"a">>, Equals(<<"p", "1">>, <<"x", " ", "y">>)),
     PartPiece(<<".">>, <<"b", "-", "a">>, Equals(<<"q">>, <<"x", "\"", "]", "y">>))}

LongPieces ==
    {[kind |-> sh.kind, sigil |-> sh.sigil, name |-> sh.name, condition |-> sh.condition,
      sep |-> <<>>] : sh \in LongShapes}

PieceLists == UNION {[1..k -> Pieces] : k \in 0..MaxPieces} \cup {<<p>> : p \in LongPieces}

ConditionText(c) ==
    IF c = <<>> THEN <<>>
    ELSE <<"[">> \o c[1].property \o <<"=", "\"">> \o c[1].value \o <<"\"", "]">>

\* the text of a piece without its separator
TokenText(p) == p.sigil \o p.name \o ConditionText(p.condition)

PieceText(p) == TokenText(p) \o p.sep

Assemble(ps) == Concat(MapSeq(ps, PieceText))

\* the selectors run against a forest: up to MaxParts names, each after a
\* descendant (space) or a direct (>) combinator
Names == {<<"a">>, <<"b">>}

QueryItems == [direct : BOOLEAN, name : Names]

ItemText(it) == (IF it.direct THEN <<">", " ">> ELSE <<>>) \o it.name \o <<" ">>

\* a selector that parseSelector rejects
RejectedSelector == <<">", " ", ">", " ", "a">>

QuerySelectors ==
    {Concat(MapSeq(its, ItemText)) : its \in UNION {[1..k -> QueryItems] : k \in 0..MaxParts}}
        \cup {RejectedSelector}

\* the elements of a set of numbers in increasing order
RECURSIVE Sorted(_)
Sorted(S) == IF S = {} THEN <<>> ELSE <<Min(S)>> \o Sorted(S \ {Min(S)})

\* forests over records 1..n: par[i] < i is the parent of record i (0: top level)
Parents(n) == {par \in [1..n -> 0..(n - 1)] : \A i \in 1..n : par[i] < i}

ChildrenOf(par, p) == Sorted({i \in DOMAIN par : par[i] = p})

\* the records of a forest: record r has the name lab[r] and keeps its children
\* in the array field childField; a record without children has an empty array
\* there when leafArrays, no such field otherwise
ForestData(par, lab, childField, leafArrays) ==
    [r \in 0..Len(par) |->
        IF r = 0
        THEN EmptyRecord
        ELSE [fields |-> (FName :> Str(lab[r])),
              arrays |-> IF ChildrenOf(par, r) = <<>> /\ ~leafArrays
                         THEN <<>>
                         ELSE (childField :> ChildrenOf(par, r))]]

\* the adapters of the model: the default one, and one reading children from
\* the field kids
AdapterChoices == {DefaultOptions, [DefaultOptions EXCEPT !.children = Field(FKids)]}

ChildField(opt) == IF opt.children.kind = "string" THEN opt.children.field ELSE FChildren

(***************************************************************************)
(* The matcher's specification: a forest is wrapped by gQuery, a Locator   *)
(* is built from a selector and run against the wrapped collection, the    *)
(* bare context array or a bare single record.                             *)
(***************************************************************************)
\* no remove or appendTo was called
NoEdit == [op |-> "none", threw |-> FALSE, data |-> <<>>, nodes |-> <<>>, to |-> NoParent,
           count |-> 0]

\* no accessor was called
NoCall == [method |-> "none", value |-> Undefined, array |-> NoArray]

NoLocator == [status |-> "none", parts |-> <<>>]
NoTarget == [kind |-> "none", items |-> <<>>]
NotRun == [status |-> "none", nodes |-> <<>>]

Init ==
    \E n \in 1..MaxNodes :
        \E par \in Parents(n), lab \in [1..n -> Names], opt \in AdapterChoices,
           leafArrays \in BOOLEAN :
            /\ options = opt
            /\ data = ForestData(par, lab, ChildField(opt), leafArrays)
            /\ context = ChildrenOf(par, 0)
            /\ nodes = WrapContext(data, context)
            /\ selector = <<>>
            /\ scan = ScanStart
            /\ pieces = <<>>
            /\ locator = NoLocator
            /\ target = NoTarget
            /\ found = NotRun
            /\ call = NoCall
            /\ edit = NoEdit

\* new Locator(selector, adapter): parseSelector, then a LocatorPart per part
NewLocatorFrom(selectors) ==
    /\ locator.status = "none"
    /\ \E sel \in selectors :
        /\ selector' = sel
        /\ scan' = ParseSelector(sel)
        /\ locator' = IF scan'.status = "returned"
                      THEN [status |-> "built", parts |-> MapSeq(scan'.returned[1], LocatorPart)]
                      ELSE [status |-> "threw", parts |-> <<>>]
    /\ UNCHANGED <<pieces, data, context, options, nodes, target, found, call, edit>>

NewLocator == NewLocatorFrom(QuerySelectors)

\* (a variant that stores the empty array it read for a record without children)
FindStoresDefault(t) ==
    /\ locator.status = "built"
    /\ found.status = "none"
    /\ target' = t
    /\ found' = LocatorFind(locator.parts, t)
    /\ data' = [r \in DOMAIN data |->
                    IF r = 0 \/ FChildren \in DOMAIN data[r].arrays
                    THEN data[r]
                    ELSE [data[r] EXCEPT !.arrays = (FChildren :> <<>>) @@ @]]
    /\ UNCHANGED <<selector, scan, pieces, context, options, nodes, locator, call, edit>>

Find(t) ==
    /\ locator.status = "built"
    /\ found.status = "none"
    /\ target' = t
    /\ found' = LocatorFind(locator.parts, t)
    /\ UNCHANGED <<selector, scan, pieces, data, context, options, nodes, locator, call, edit>>

\* locator.find(collection), as Collection.prototype.find and $ do with the
\* root's children
FindInCollection == Find([kind |-> "collection", items |-> nodes[0].children])

\* locator.find(array of records)
FindInArray == Find([kind |-> "array", items |-> context])

\* locator.find(record)
FindInRecord == Find([kind |-> "single", items |-> <<context[1]>>])

Next == NewLocator \/ FindInCollection \/ FindInArray \/ FindInRecord

Spec == Init /\ [][Next]_vars

(***************************************************************************)
(* The predicates' specification: one record whose fields hold values of   *)
(* several types, and one-part selectors of every kind, with and without   *)
(* a condition on the property p.                                          *)
(***************************************************************************)
FProp == <<"p">>

IdValues == {Undefined, Num(2), Str(<<"2">>), Str(<<"a">>)}
ClassValues == {Undefined, Str(<<"a">>)}
NameValues == {Undefined, Str(<<"a">>)}
PropValues ==
    {Undefined, Num(0), Num(2), Str(<<"0">>), Str(<<>>), Str(<<"v">>), Bool(FALSE)}

\* a record with the given field values; a field given undefined is absent
RecordOf(idv, classv, namev, propv, leafArrays) ==
    LET val == (FId :> idv) @@ (FClass :> classv) @@ (FName :> namev) @@ (FProp :> propv)
    IN  [fields |-> [f \in {g \in DOMAIN val : val[g] # Undefined} |-> val[f]],
         arrays |-> IF leafArrays THEN (FChildren :> <<>>) ELSE <<>>]

BaseTokens == {<<"#", "2">>, <<"#", "a">>, <<".", "a">>, <<"a">>}

ConditionTexts ==
    {<<"0">>, <<"2">>, <<>>, <<"v">>, <<"f", "a", "l", "s", "e">>,
     <<"u", "n", "d", "e", "f", "i", "n", "e", "d">>}

WithCondition(token, text) == token \o <<"[", "p", "=", "\"">> \o text \o <<"\"", "]">>

PredicateSelectors ==
    BaseTokens \cup {WithCondition(t, c) : t \in BaseTokens, c \in ConditionTexts}

\* the default adapter, and one whose id is read from the field p
PredicateAdapters == {DefaultOptions, [DefaultOptions EXCEPT !.id = Field(FProp)]}

InitPred ==
    \E idv \in IdValues, classv \in ClassValues, namev \in NameValues,
       propv \in PropValues, opt \in PredicateAdapters, leafArrays \in BOOLEAN :
        /\ options = opt
        /\ data = (0 :> EmptyRecord) @@ (1 :> RecordOf(idv, classv, namev, propv, leafArrays))
        /\ context = <<1>>
        /\ nodes = WrapContext(data, context)
        /\ selector = <<>>
        /\ scan = ScanStart
        /\ pieces = <<>>
        /\ locator = NoLocator
        /\ target = NoTarget
        /\ found = NotRun
        /\ call = NoCall
        /\ edit = NoEdit

NewPredicateLocator == NewLocatorFrom(PredicateSelectors)

NextPred == NewPredicateLocator \/ FindInCollection \/ FindInArray \/ FindInRecord

SpecPred == InitPred /\ [][NextPred]_vars

(***************************************************************************)
(* The parser's specification: parseSelector run round by round on an      *)
(* assembled selector.                                                     *)
(***************************************************************************)
InitParse ==
    /\ pieces \in PieceLists
    /\ selector = Assemble(pieces)
    /\ scan = ScanStart
    /\ options = DefaultOptions
    /\ data = (0 :> EmptyRecord)
    /\ context = <<>>
    /\ nodes = WrapContext(data, context)
    /\ locator = NoLocator
    /\ target = NoTarget
    /\ found = NotRun
    /\ call = NoCall
    /\ edit = NoEdit

Round(kind) ==
    /\ scan.status = "scanning"
    /\ LET match == Exec(selector, scan.lastIndex)
       IN  kind = IF ~match.found THEN "end"
                  ELSE IF match.text # <<">">> THEN "part"
                  ELSE IF scan.direct THEN "redundant" ELSE "combinator"
    /\ scan' = ScanStep(selector, scan)
    /\ UNCHANGED <<selector, pieces, data, context, options, nodes, locator, target, found, call, edit>>

\* exec finds nothing more: return parts
ScanEnd == Round("end")

\* a token that is not '>': a part is pushed
ScanPart == Round("part")

\* '>' with no '>' pending
ScanCombinator == Round("combinator")

\* '>' while a '>' is pending: throw
ScanRedundant == Round("redundant")

NextParse == ScanEnd \/ ScanPart \/ ScanCombinator \/ ScanRedundant

SpecParse == InitParse /\ [][NextParse]_vars

(***************************************************************************)
(* Reference notions the properties are stated with: the forest as the     *)
(* adapter presents it, the test a part stands for, and the matching       *)
(* algorithm as the specification words it.                                *)
(***************************************************************************)
\* the record an element of a collection stands for
ElemRecord(e) == IF e.k = "node" THEN nodes[e.r].object ELSE e.r

\* the records Locator.find was handed, in order
SeedRecords ==
    IF target.kind = "collection" THEN MapSeq(target.items, LAMBDA n : nodes[n].object)
    ELSE target.items

\* the records Locator.find returned, in order
FoundRecords == MapSeq(found.nodes, ElemRecord)

\* the children of a record: getChildren, an absent sequence read as empty
RecordChildren(r) == SourceOrEmpty(GetChildren(data[r]))

\* the pre-order traversal of the forest below a sequence of records
RECURSIVE PreOrder(_)
PreOrder(rs) ==
    IF rs = <<>>
    THEN <<>>
    ELSE <<Head(rs)>> \o PreOrder(RecordChildren(Head(rs))) \o PreOrder(Tail(rs))

\* the test a part stands for: the accessor's result, coerced to a string, equals
\* the part's value, and the condition's property, coerced to a string, equals the
\* condition's value
BaseHolds(part, r) ==
    CASE part.type = "id" -> JSString(GetId(data[r])) = part.value
      [] part.type = "class" -> JSString(GetClass(data[r])) = part.value
      [] part.type = "name" -> JSString(GetName(data[r])) = part.value

ConditionHolds(part, r) ==
    \/ part.condition = NoCondition
    \/ JSString(Prop(data[r], part.condition[1].property)) = part.condition[1].value

Holds(part, r) == BaseHolds(part, r) /\ ConditionHolds(part, r)

Filter(rs, part) == SelectSeq(rs, LAMBDA r : Holds(part, r))

\* searchMatches(current, recursive, predicate)
SearchMatches(current, recursive, part) ==
    IF recursive THEN Filter(PreOrder(current), part) ELSE Filter(current, part)

\* the concatenation of the children of every match, in order
ChildrenOfAll(ms) == Concat(MapSeq(ms, RecordChildren))

\* the reference algorithm from part i on
RECURSIVE ReferenceFind(_, _, _)
ReferenceFind(parts, i, current) ==
    IF i > Len(parts)
    THEN current
    ELSE LET matches == SearchMatches(current, ~parts[i].direct, parts[i])
         IN  IF i # Len(parts)
             THEN ReferenceFind(parts, i + 1, ChildrenOfAll(matches))
             ELSE ReferenceFind(parts, i + 1, matches)

\* the records of the forest below the seed, and the parent of each
ForestRecords == {PreOrder(SeedRecords)[i] : i \in 1..Len(PreOrder(SeedRecords))}

IsParentOf(p, r) == p \in ForestRecords /\ IsIn(RecordChildren(p), r)

NoDuplicates(s) == \A i, j \in 1..Len(s) : s[i] = s[j] => i = j

SetOf(s) == {s[i] : i \in 1..Len(s)}

Ran == found.status # "none"

(***************************************************************************)
(* C1: a selector of one non-direct part returns the pre-order traversal   *)
(* of the whole seed forest, filtered by the part's test: every matching   *)
(* record once, in traversal order, and no other record.                   *)
(***************************************************************************)
SinglePartPreOrder ==
    (Ran /\ Len(locator.parts) = 1 /\ ~locator.parts[1].direct)
        => /\ found.status = "returned"
           /\ FoundRecords = Filter(PreOrder(SeedRecords), locator.parts[1])

(***************************************************************************)
(* C2: a selector a > b over a tree returns exactly the records that match *)
(* b and whose parent is a record matching a, each of them once.           *)
(***************************************************************************)
DirectChildOfMatch ==
    (Ran /\ Len(locator.parts) = 2 /\ ~locator.parts[1].direct /\ locator.parts[2].direct)
        => /\ found.status = "returned"
           /\ NoDuplicates(FoundRecords)
           /\ SetOf(FoundRecords) =
                {r \in ForestRecords :
                    /\ Holds(locator.parts[2], r)
                    /\ \E p \in ForestRecords :
                         IsParentOf(p, r) /\ Holds(locator.parts[1], p)}

(***************************************************************************)
(* C3: for every part sequence and every seed, Locator.find returns the    *)
(* sequence the reference algorithm returns.                               *)
(***************************************************************************)
FindRefinesReference ==
    Ran => /\ found.status = "returned"
           /\ FoundRecords = ReferenceFind(locator.parts, 1, SeedRecords)

(***************************************************************************)
(* C4: a part with a condition {property p, value v} matches a record if   *)
(* and only if the part's base test holds and String(record[p]) equals v,  *)
(* whatever the type of the field's value (0, false and "" included).      *)
(***************************************************************************)
ConditionMatchesByString ==
    (Ran /\ Len(locator.parts) = 1 /\ locator.parts[1].condition # NoCondition)
        => /\ found.status = "returned"
           /\ FoundRecords = Filter(PreOrder(SeedRecords), locator.parts[1])

(***************************************************************************)
(* C5: a part of kind id, class or name with value v matches a record if   *)
(* and only if String(getId(r)), String(getClass(r)) or String(getName(r)) *)
(* equals v.                                                               *)
(***************************************************************************)
KindMatchesByString ==
    (Ran /\ Len(locator.parts) = 1 /\ locator.parts[1].condition = NoCondition)
        => /\ found.status = "returned"
           /\ \A r \in ForestRecords :
                IsIn(FoundRecords, r) <=> BaseHolds(locator.parts[1], r)

(***************************************************************************)
(* Reference notions for the parser: the tokens of a selector, and the     *)
(* parts a selector assembled from pieces stands for.                      *)
(***************************************************************************)
RECURSIVE TokensFrom(_, _)
TokensFrom(s, lastIndex) ==
    LET m == Exec(s, lastIndex)
    IN  IF ~m.found THEN <<>> ELSE <<m>> \o TokensFrom(s, m.lastIndex)

\* the tokens of the selector, each with its 0-based offset
Tokens == TokensFrom(selector, 0)

IsCombinator(tok) == tok.text = <<">">>

\* the positions, in the token sequence, of the tokens that are not '>'
PartPositions == Sorted({i \in 1..Len(Tokens) : ~IsCombinator(Tokens[i])})

\* the positions of the '>' tokens that directly follow a '>' token
RedundantPositions ==
    {j \in 2..Len(Tokens) : IsCombinator(Tokens[j]) /\ IsCombinator(Tokens[j - 1])}

StripSigil(text) == IF text[1] \in {"#", "."} THEN Tail(text) ELSE text

KindFollowsSigil(part, text) ==
    /\ text[1] = "#" => part.type = "id"
    /\ text[1] = "." => part.type = "class"
    /\ text[1] \notin {"#", "."} => part.type = "name"

Parsed == scan.status = "returned"

\* the part a piece stands for
ExpectedPart(p, direct) ==
    [source |-> TokenText(p),
     type |-> IF p.sigil = <<"#">> THEN "id" ELSE IF p.sigil = <<".">> THEN "class" ELSE "name",
     direct |-> direct,
     value |-> p.name,
     condition |-> IF p.condition = <<>>
                   THEN <<>>
                   ELSE <<[type |-> "equality", property |-> p.condition[1].property,
                           value |-> p.condition[1].value]>>]

\* the pieces form a selector of the grammar: parts separated by whitespace or
\* by one '>' (with whitespace around it)
GrammarValid(ps) ==
    /\ ps # <<>>
    /\ \A i \in 1..Len(ps) : ps[i].kind \in {"part", "combinator"} /\ ps[i].sep = <<" ">>
    /\ ps[1].kind = "part" /\ ps[Len(ps)].kind = "part"
    /\ \A i \in 1..(Len(ps) - 1) : ~(ps[i].kind = "combinator" /\ ps[i + 1].kind = "combinator")

\* the parts such pieces stand for
ExpectedParts(ps) ==
    LET at == Sorted({i \in 1..Len(ps) : ps[i].kind = "part"})
    IN  [j \in 1..Len(at) |->
            ExpectedPart(ps[at[j]], at[j] > 1 /\ ps[at[j] - 1].kind = "combinator")]

(***************************************************************************)
(* C6: a selector with two '>' tokens and no part between them makes       *)
(* parseSelector throw; the error carries the offset of the second '>',    *)
(* and no part sequence is returned.                                       *)
(***************************************************************************)
RedundantCombinatorRejected ==
    (scan.status # "scanning" /\ RedundantPositions # {})
        => /\ scan.status = "threw"
           /\ scan.errorAt = Tokens[Min(RedundantPositions)].index
           /\ selector[scan.errorAt + 1] = ">"
           /\ scan.returned = <<>>

\* the throw happened after parts had been parsed
ThrewAfterParts == scan.status = "threw" /\ scan.parts # <<>> /\ scan.errorAt > 0

(***************************************************************************)
(* C7 as stated: one part per token that is not '>', in token order, the   *)
(* kind given by the sigil and the value equal to the token with the sigil *)
(* stripped.                                                               *)
(***************************************************************************)
PartValueIsStrippedToken ==
    Parsed =>
        /\ Len(scan.returned[1]) = Len(PartPositions)
        /\ \A j \in 1..Len(PartPositions) :
            LET part == scan.returned[1][j]
                text == Tokens[PartPositions[j]].text
            IN  /\ KindFollowsSigil(part, text)
                /\ part.value = StripSigil(text)

(***************************************************************************)
(* C7 as amended: one part per token that is not '>', in token order, the  *)
(* kind given by the sigil; the value, followed by the bracket suffix of   *)
(* the part's condition when it has one, is the token with the sigil       *)
(* stripped.                                                               *)
(***************************************************************************)
OnePartPerToken ==
    Parsed =>
        /\ Len(scan.returned[1]) = Len(PartPositions)
        /\ \A j \in 1..Len(PartPositions) :
            LET part == scan.returned[1][j]
                text == Tokens[PartPositions[j]].text
            IN  /\ part.source = text
                /\ KindFollowsSigil(part, text)
                /\ part.value \o ConditionText(part.condition) = StripSigil(text)

\* an id part, a class part and a name part, in this order
ThreeKindsParsed ==
    /\ Parsed
    /\ Len(scan.returned[1]) = 3
    /\ scan.returned[1][1].type = "id"
    /\ scan.returned[1][2].type = "class"
    /\ scan.returned[1][3].type = "name"
    /\ scan.returned[1][3].condition # NoCondition

(***************************************************************************)
(* C8: a part is direct if and only if a '>' token stands between it and   *)
(* the part before it (or the start); the pending flag is set exactly      *)
(* when the last token read is '>', so it never reaches a later part; a    *)
(* '>' at the end adds no part and no error: the parse equals the parse of *)
(* the selector without it.                                                *)
(***************************************************************************)
TokensRead == SelectSeq(Tokens, LAMBDA tok : tok.lastIndex <= scan.lastIndex)

DirectIffCombinatorBefore ==
    /\ scan.direct <=> (TokensRead # <<>> /\ IsCombinator(TokensRead[Len(TokensRead)]))
    /\ Parsed =>
        /\ Len(scan.returned[1]) = Len(PartPositions)
        /\ \A j \in 1..Len(PartPositions) :
            scan.returned[1][j].direct
                <=> (PartPositions[j] > 1 /\ IsCombinator(Tokens[PartPositions[j] - 1]))
        /\ (Tokens # <<>> /\ IsCombinator(Tokens[Len(Tokens)]))
            => LET short == ParseSelector(Substring(selector, 0, Tokens[Len(Tokens)].index))
               IN  short.status = "returned" /\ short.returned = scan.returned

\* a parse that ended on a pending '>' and returned a direct part
TrailingCombinatorParsed ==
    /\ Parsed
    /\ scan.direct
    /\ \E i \in 1..Len(scan.returned[1]) : scan.returned[1][i].direct

(***************************************************************************)
(* C9: a selector of one part token parses to exactly one part: its kind   *)
(* follows the sigil, its value is the text before the bracket (sigil      *)
(* stripped), its condition is {equality, p, v} when the token has the     *)
(* bracket suffix [p="v"] and absent when it has none.                     *)
(***************************************************************************)
SingleTokenCondition ==
    (scan.status # "scanning" /\ Len(pieces) = 1 /\ pieces[1].kind = "part")
        => /\ Parsed
           /\ scan.returned[1] = <<ExpectedPart(pieces[1], FALSE)>>

\* a single token whose condition value holds a quote and a bracket was parsed
SingleConditionParsed ==
    /\ Parsed
    /\ Len(pieces) = 1
    /\ pieces[1].condition # <<>>
    /\ IsIn(pieces[1].condition[1].value, "]")
    /\ Len(scan.returned[1]) = 1
    /\ scan.returned[1][1].condition # NoCondition

(***************************************************************************)
(* C10: a selector of k parts separated by combinators, two or more of     *)
(* which carry a bracketed condition, parses into k parts, each with its   *)
(* own kind, value and condition.                                          *)
(***************************************************************************)
ConditionCount(ps) == Cardinality({i \in 1..Len(ps) : ps[i].condition # <<>>})

EachPartKeepsItsCondition ==
    (scan.status # "scanning" /\ GrammarValid(pieces) /\ ConditionCount(pieces) >= 2)
        => /\ Parsed
           /\ scan.returned[1] = ExpectedParts(pieces)

(***************************************************************************)
(* The adapter's specification: an Adapter built from options of every     *)
(* kind, and its accessors called on one record.                           *)
(***************************************************************************)
ScalarOptions == {Absent, Field(FProp), Function(<<"f">>)}

ChildrenOptions == {Absent, Field(FKids), Function(FKids)}

AdapterOptions ==
    [id : ScalarOptions, name : ScalarOptions, class : ScalarOptions,
     children : ChildrenOptions, other : ScalarOptions]

\* the records the accessors are called on: each scalar field present or not,
\* each of the array fields children and kids absent, empty or holding record 2
FieldValues == (FId :> Num(2)) @@ (FClass :> Str(<<"c">>)) @@ (FName :> Str(<<"n">>))
               @@ (FProp :> Str(<<"v">>))

ArrayChoices(f) == {<<>>, (f :> <<>>), (f :> <<2>>)}

AdapterRecords ==
    {[fields |-> [f \in fs |-> FieldValues[f]], arrays |-> a1 @@ a2] :
        fs \in SUBSET (DOMAIN FieldValues),
        a1 \in ArrayChoices(FChildren), a2 \in ArrayChoices(FKids)}

InitAdapter ==
    /\ options \in AdapterOptions
    /\ \E rec \in AdapterRecords :
        data = (0 :> EmptyRecord) @@ (1 :> rec) @@ (2 :> EmptyRecord)
    /\ context = <<>>
    /\ nodes = WrapContext((0 :> EmptyRecord), context)
    /\ selector = <<>>
    /\ scan = ScanStart
    /\ pieces = <<>>
    /\ locator = NoLocator
    /\ target = NoTarget
    /\ found = NotRun
    /\ call = NoCall
    /\ edit = NoEdit

Called(method, value, array) ==
    /\ call' = [method |-> method, value |-> value, array |-> array]
    /\ UNCHANGED <<selector, scan, pieces, data, context, options, nodes, locator, target, found,
                 edit>>

\* adapter.getId(record)
CallGetId == Called("getId", GetId(data[1]), NoArray)

\* adapter.getClass(record)
CallGetClass == Called("getClass", GetClass(data[1]), NoArray)

\* adapter.getName(record)
CallGetName == Called("getName", GetName(data[1]), NoArray)

\* adapter.getChildren(record)
CallGetChildren == Called("getChildren", Undefined, GetChildren(data[1]))

NextAdapter == CallGetId \/ CallGetClass \/ CallGetName \/ CallGetChildren

SpecAdapter == InitAdapter /\ [][NextAdapter]_vars

(***************************************************************************)
(* C11: for each of the options id, name, class and children: a function f *)
(* makes the accessor return f(record), a string s makes it return         *)
(* record[s], an absent option keeps the default accessor; the other       *)
(* options, recognised or not, have no effect on the accessor.             *)
(***************************************************************************)
\* what the function given as an option returns
FunctionResult(option) == Str(option.field)

ChildrenFunctionResult(option) ==
    IF option.field \in DOMAIN data[1].arrays
    THEN Array(data[1].arrays[option.field])
    ELSE Array(<<>>)

ScalarFollows(option, default) ==
    /\ option.kind = "function" => call.value = FunctionResult(option)
    /\ option.kind = "string" => call.value = Prop(data[1], option.field)
    /\ option.kind = "absent" => call.value = Prop(data[1], default)

AccessorFollowsOption ==
    /\ call.method = "getId" => ScalarFollows(options.id, FId)
    /\ call.method = "getClass" => ScalarFollows(options.class, FClass)
    /\ call.method = "getName" => ScalarFollows(options.name, FName)
    /\ call.method = "getChildren" =>
        /\ options.children.kind = "function"
            => call.array = ChildrenFunctionResult(options.children)
        /\ options.children.kind = "string"
            => call.array = ArrayProp(data[1], options.children.field)
        /\ options.children.kind = "absent"
            => call.array = IF FChildren \in DOMAIN data[1].arrays
                            THEN Array(data[1].arrays[FChildren])
                            ELSE Array(<<>>)

\* getId was called with the default id kept while name is a string, class a
\* function and an unknown option is given
DefaultKeptAmongOverrides ==
    /\ call.method = "getId"
    /\ call.value = Num(2)
    /\ options.id.kind = "absent"
    /\ options.name.kind = "string"
    /\ options.class.kind = "function"
    /\ options.other.kind # "absent"

(***************************************************************************)
(* C12: with the default children accessor and with a field-name string    *)
(* override, getChildren returns a sequence for every record, never        *)
(* undefined: the empty sequence when the record lacks the field.          *)
(***************************************************************************)
ChildrenFieldOf(option) == IF option.kind = "string" THEN option.field ELSE FChildren

GetChildrenNeverUndefined ==
    (call.method = "getChildren" /\ options.children.kind \in {"absent", "string"})
        => /\ ~call.array.undefined
           /\ ChildrenFieldOf(options.children) \notin DOMAIN data[1].arrays
                => call.array.items = <<>>

(***************************************************************************)
(* C14: for every selector that parsed, with or without a condition, and   *)
(* every seed (a record, an array of records, a collection) Locator.find   *)
(* returns a sequence and raises no error.                                 *)
(***************************************************************************)
FindIsTotal == Ran => found.status = "returned"

(***************************************************************************)
(* C15: a query leaves every record as it was: no field and no children    *)
(* sequence of the caller's data changes, whatever the selector, and also  *)
(* when the selector is rejected.                                          *)
(***************************************************************************)
QueryKeepsRecords == [][data' = data /\ context' = context]_vars

\* a query returned records, over a forest with a record that has no children
\* field
QueryReturnedRecords ==
    /\ found.status = "returned"
    /\ found.nodes # <<>>
    /\ \E r \in DOMAIN data : r # 0 /\ data[r].arrays = <<>>

(***************************************************************************)
(* C16: matching reads id, class, name and children through the adapter's  *)
(* accessors for every form of seed: records handed to Locator.find as an  *)
(* array or alone give what the same records give when wrapped by gQuery,  *)
(* whose nodes read through the adapter.                                   *)
(***************************************************************************)
SeedFormIsIrrelevant ==
    (Ran /\ target.kind \in {"array", "single"})
        => LET wrapped == LocatorFind(locator.parts,
                                      [kind |-> "collection", items |-> target.items])
           IN  /\ found.status = wrapped.status
               /\ FoundRecords = MapSeq(wrapped.nodes, ElemRecord)

(***************************************************************************)
(* C17: for a selector a b whose second part is not direct, over a tree, a *)
(* record matching b occurs in the result once for each of its proper      *)
(* ancestors that match a; other records do not occur.                     *)
(***************************************************************************)
RECURSIVE IsAncestorOf(_, _)
IsAncestorOf(p, r) ==
    \E c \in SetOf(RecordChildren(p)) : c = r \/ IsAncestorOf(c, r)

Count(s, x) == Cardinality({i \in 1..Len(s) : s[i] = x})

OncePerMatchingAncestor ==
    (Ran /\ Len(locator.parts) = 2 /\ ~locator.parts[1].direct /\ ~locator.parts[2].direct)
        => /\ found.status = "returned"
           /\ \A x \in ForestRecords :
                Count(FoundRecords, x) =
                    IF Holds(locator.parts[2], x)
                    THEN Cardinality({p \in ForestRecords :
                                        IsAncestorOf(p, x) /\ Holds(locator.parts[1], p)})
                    ELSE 0

(***************************************************************************)
(* C20: the empty selector parses to no part, and find with no part        *)
(* returns the seed: the same records in the same order.                   *)
(***************************************************************************)
EmptySelectorIsIdentity ==
    (Ran /\ selector = <<>>)
        => /\ locator.parts = <<>>
           /\ found.status = "returned"
           /\ FoundRecords = SeedRecords

(***************************************************************************)
(* The caller's specification: the caller changes the records between two  *)
(* queries made through the same query function, and may then build a new  *)
(* query function over the same records.                                   *)
(***************************************************************************)
InitMutate ==
    /\ Init
    /\ options = DefaultOptions
    /\ \A r \in DOMAIN data : r = 0 \/ FChildren \in DOMAIN data[r].arrays

\* the Nodes of a second query function are named apart from the first one's
FreshBase == MaxNodes + 2

Fresh(n) == IF n < 0 THEN n ELSE n + FreshBase

FreshBuilt == Fresh(0) \in DOMAIN nodes

\* the caller changes the records; a second query function built earlier is
\* dropped, and the next query is yet to come
Mutated(d) ==
    /\ locator.status = "built"
    /\ data' = d
    /\ target' = NoTarget
    /\ found' = NotRun
    /\ nodes' = [n \in {m \in DOMAIN nodes : m < FreshBase} |-> nodes[n]]
    /\ UNCHANGED <<selector, scan, pieces, context, options, locator, call, edit>>

\* record.name = value
SetName ==
    \E r \in DOMAIN data \ {0}, v \in Names :
        /\ Prop(data[r], FName) # Str(v)
        /\ Mutated([data EXCEPT ![r].fields = (FName :> Str(v)) @@ @])

\* record.children.pop()
PopChild ==
    \E r \in DOMAIN data \ {0} :
        /\ data[r].arrays[FChildren] # <<>>
        /\ Mutated([data EXCEPT ![r].arrays[FChildren] = SubSeq(@, 1, Len(@) - 1)])

\* record.children.push({name: value, children: []})
PushChild ==
    \E r \in DOMAIN data \ {0}, v \in Names :
        LET new == Max(DOMAIN data) + 1
        IN  /\ new <= MaxNodes + 1
            /\ Mutated([data EXCEPT ![r].arrays[FChildren] = Append(@, new)]
                        @@ (new :> [fields |-> (FName :> Str(v)),
                                    arrays |-> (FChildren :> <<>>)]))

\* $2 = gQuery(context): a second set of Nodes over the same records
GQueryAgain ==
    /\ locator.status = "built"
    /\ ~FreshBuilt
    /\ LET w == WrapContext(data, context)
       IN  nodes' = nodes @@ [n \in {Fresh(r) : r \in DOMAIN w} |->
                                LET node == w[n - FreshBase]
                                IN  [object |-> node.object,
                                     parent |-> Fresh(node.parent),
                                     index |-> node.index,
                                     children |-> [i \in 1..Len(node.children) |->
                                                     Fresh(node.children[i])]]]
    /\ UNCHANGED <<selector, scan, pieces, data, context, options, locator, target, found, call, edit>>

NextMutate ==
    NewLocator \/ FindInCollection \/ SetName \/ PopChild \/ PushChild \/ GQueryAgain

SpecMutate == InitMutate /\ [][NextMutate]_vars

(***************************************************************************)
(* C13: when the caller changes a record's name or a record's children     *)
(* array between two queries through the same query function, the second   *)
(* query returns what a query function freshly built over the changed      *)
(* records returns.                                                        *)
(***************************************************************************)
FreshFound ==
    LocatorFind(locator.parts, [kind |-> "collection", items |-> nodes[Fresh(0)].children])

NothingIsCached ==
    (Ran /\ FreshBuilt)
        => /\ found.status = FreshFound.status
           /\ FoundRecords = MapSeq(FreshFound.nodes, ElemRecord)

(***************************************************************************)
(* Editing.  remove and appendTo change the caller's arrays through the    *)
(* adapter and the wrappers' Collections besides.  A world is the records, *)
(* the Nodes, and whether a TypeError ended the call.                      *)
(***************************************************************************)
\* the array getChildren(record) returns: the array held in a field of the
\* record, an empty array made for the occasion, or undefined
ChildrenSlot(rec) ==
    LET f == IF options.children.kind = "absent" THEN FChildren ELSE options.children.field
    IN  IF f \in DOMAIN rec.arrays THEN [kind |-> "field", field |-> f]
        ELSE IF options.children.kind = "string" THEN [kind |-> "undefined", field |-> f]
        ELSE [kind |-> "temporary", field |-> f]

\* array.splice(index, 1): a negative index counts from the end
Splice(a, index) ==
    LET start == IF index < 0 THEN Max({Len(a) + index, 0}) ELSE index
    IN  IF start < Len(a)
        THEN SubSeq(a, 1, start) \o SubSeq(a, start + 2, Len(a))
        ELSE a

\* adapter.removeChild(node, childIndex)
RemoveChild(d, object, childIndex) ==
    LET slot == ChildrenSlot(d[object])
    IN  CASE slot.kind = "undefined" -> [threw |-> TRUE, data |-> d]
          [] slot.kind = "temporary" -> [threw |-> FALSE, data |-> d]
          [] slot.kind = "field" ->
                [threw |-> FALSE,
                 data |-> [d EXCEPT ![object].arrays[slot.field] = Splice(@, childIndex)]]

\* adapter.appendChild(node, child)
AppendChild(d, object, child) ==
    LET slot == ChildrenSlot(d[object])
    IN  CASE slot.kind = "undefined" -> [threw |-> TRUE, data |-> d]
          [] slot.kind = "temporary" -> [threw |-> FALSE, data |-> d]
          [] slot.kind = "field" ->
                [threw |-> FALSE,
                 data |-> [d EXCEPT ![object].arrays[slot.field] = Append(@, child)]]

\* the index a removed Node is given
Removed == 0 - 1

\* Collection.prototype.removeAt(index) on the children of Node p: the source
\* array, then the Collection's nodes, the indexes of the nodes behind, and the
\* removed Node's index; this.nodes[index] is undefined for an index outside
\* the array, and assigning its index throws
RemoveAt(w, p, index) ==
    LET rc == RemoveChild(w.data, w.nodes[p].object, index)
        kids == w.nodes[p].children
        left == Splice(kids, index)
    IN  IF rc.threw
        THEN [w EXCEPT !.threw = TRUE]
        ELSE IF index >= 0 /\ index < Len(kids)
             THEN [data |-> rc.data,
                   nodes |-> [n \in DOMAIN w.nodes |->
                                IF n = p THEN [w.nodes[n] EXCEPT !.children = left]
                                ELSE IF n = kids[index + 1]
                                     THEN [w.nodes[n] EXCEPT !.index = Removed]
                                ELSE IF IsIn(left, n) /\ IndexIn(left, n) >= index
                                     THEN [w.nodes[n] EXCEPT !.index = @ - 1]
                                ELSE w.nodes[n]],
                   threw |-> FALSE]
             ELSE [data |-> rc.data,
                   nodes |-> [w.nodes EXCEPT ![p].children = left],
                   threw |-> TRUE]

\* Node.prototype.remove
NodeRemove(w, n) ==
    IF w.nodes[n].parent # NoParent
    THEN RemoveAt(w, w.nodes[n].parent, w.nodes[n].index)
    ELSE w

\* Collection.prototype.add(node) on the children of Node p
Add(w, p, n) ==
    LET ac == AppendChild(w.data, w.nodes[p].object, w.nodes[n].object)
        grown == Append(w.nodes[p].children, n)
    IN  IF ac.threw
        THEN [w EXCEPT !.threw = TRUE]
        ELSE [data |-> ac.data,
              nodes |-> [m \in DOMAIN w.nodes |->
                            IF m = p THEN [w.nodes[m] EXCEPT !.children = grown]
                            ELSE IF m = n
                                 THEN [w.nodes[m] EXCEPT !.parent = p, !.index = Len(grown) - 1]
                            ELSE w.nodes[m]],
              threw |-> FALSE]

\* the element of a one-element set (a value computed once, then named)
The(S) == CHOOSE x \in S : TRUE

\* Node.prototype.append(child): child.remove(), then this.children.add(child)
NodeAppend(w, p, child) ==
    The({IF gone.threw THEN gone ELSE Add(gone, p, child) : gone \in {NodeRemove(w, child)}})

\* Collection.prototype.remove: each node in turn, until a call throws
RECURSIVE CollectionRemove(_, _)
CollectionRemove(w, es) ==
    IF w.threw \/ es = <<>>
    THEN w
    ELSE The({CollectionRemove(next, Tail(es)) : next \in {NodeRemove(w, Head(es).r)}})

RECURSIVE AppendEach(_, _, _)
AppendEach(w, es, p) ==
    IF w.threw \/ es = <<>>
    THEN w
    ELSE The({AppendEach(next, Tail(es), p) : next \in {NodeAppend(w, p, Head(es).r)}})

\* Collection.prototype.appendTo(parent): parent.first() is undefined for an
\* empty collection, and the first node.appendTo(undefined) throws
CollectionAppendTo(w, es, t) ==
    IF es = <<>> THEN w
    ELSE IF t = <<>> THEN [w EXCEPT !.threw = TRUE]
    ELSE AppendEach(w, es, t[1].r)

(***************************************************************************)
(* The editing specification: a forest is wrapped by gQuery, a query       *)
(* through the query function selects nodes, and the selection is removed  *)
(* or appended to the first node of another selection; then the same       *)
(* again, up to MaxEdits edits.                                            *)
(***************************************************************************)
EditSelectors == Names

\* $(selector)
Query(sel) ==
    LocatorFind(MapSeq(ParseSelector(sel).returned[1], LocatorPart),
                [kind |-> "collection", items |-> nodes[0].children])

\* whether Node m is Node n or below it
RECURSIVE IsWithin(_, _)
IsWithin(n, m) ==
    n = m \/ \E i \in 1..Len(nodes[n].children) : IsWithin(nodes[n].children[i], m)

World == [data |-> data, nodes |-> nodes, threw |-> FALSE]

Edited(op, w, to) ==
    /\ found.status = "returned"
    /\ edit.op = "none"
    /\ edit.count < MaxEdits
    /\ data' = w.data
    /\ nodes' = w.nodes
    /\ edit' = [op |-> op, threw |-> w.threw, data |-> data, nodes |-> nodes, to |-> to,
                count |-> edit.count + 1]
    /\ UNCHANGED <<selector, scan, pieces, context, options, locator, target, found, call>>

NewEditLocator == NewLocatorFrom(EditSelectors)

\* $(selector).remove()
Remove ==
    \E w \in {CollectionRemove(World, found.nodes)} : Edited("remove", w, NoParent)

\* $(selector).appendTo($(other)); the first node of $(other) is not one of
\* the nodes moved and is not below one
AppendTo ==
    \E other \in EditSelectors :
        \E t \in {Query(other).nodes} :
            /\ t # <<>> => \A i \in 1..Len(found.nodes) : ~IsWithin(found.nodes[i].r, t[1].r)
            /\ \E w \in {CollectionAppendTo(World, found.nodes, t)} :
                    Edited("appendTo", w, IF t = <<>> THEN NoParent ELSE t[1].r)

\* c.remove() once more on the collection c that was just removed: its Nodes
\* keep their parent and have the index of a removed Node.  The call is the
\* caller's last: removeAt's slice(index) belongs to the Lazy library, and what
\* it does to the other Nodes' indexes for a negative index is left open
RemoveAgain ==
    /\ edit.op = "remove"
    /\ ~edit.threw
    /\ \E w \in {CollectionRemove(World, found.nodes)} :
        /\ data' = w.data
        /\ nodes' = w.nodes
        /\ edit' = [op |-> "removeAgain", threw |-> w.threw, data |-> data, nodes |-> nodes,
                    to |-> NoParent, count |-> edit.count]
    /\ UNCHANGED <<selector, scan, pieces, context, options, locator, target, found, call>>

\* the caller goes on to the next query
Again ==
    /\ edit.op \in {"remove", "appendTo"}
    /\ edit' = [NoEdit EXCEPT !.count = edit.count]
    /\ selector' = <<>>
    /\ scan' = ScanStart
    /\ locator' = NoLocator
    /\ target' = NoTarget
    /\ found' = NotRun
    /\ UNCHANGED <<pieces, data, context, options, nodes, call>>

NextEdit == NewEditLocator \/ FindInCollection \/ Remove \/ AppendTo \/ RemoveAgain \/ Again

SpecEdit == Init /\ [][NextEdit]_vars

(***************************************************************************)
(* Reference notions for editing.                                          *)
(***************************************************************************)
\* the caller's children sequence of a record, in the records d: the context
\* array for the root that wrapContext builds for an array context
CallerChildren(d, object) ==
    IF object = 0 THEN context ELSE SourceOrEmpty(GetChildren(d[object]))

\* the records a later query returns
LaterFound(sel) == MapSeq(Query(sel).nodes, ElemRecord)

\* the records of the Nodes the edit was called on
EditedRecords == {edit.nodes[found.nodes[i].r].object : i \in 1..Len(found.nodes)}

Without(seq, S) == SelectSeq(seq, LAMBDA x : x \notin S)

\* the last k entries of a sequence
Suffix(seq, k) == SubSeq(seq, Len(seq) - k + 1, Len(seq))

(***************************************************************************)
(* C18: after collection.remove(), the record of every node of the         *)
(* collection that had a parent is gone from its parent's children, in the *)
(* caller's data and in the results of later queries; the other children   *)
(* keep their order and no other record is removed.                        *)
(***************************************************************************)
RemoveDetaches ==
    edit.op = "remove" =>
        /\ ~edit.threw
        /\ \A i \in 1..Len(found.nodes) :
            LET n == found.nodes[i].r
                p == edit.nodes[n].parent
            IN  p # NoParent =>
                    /\ ~IsIn(CallerChildren(data, edit.nodes[p].object), edit.nodes[n].object)
                    /\ \A sel \in EditSelectors : ~IsIn(LaterFound(sel), edit.nodes[n].object)
        /\ \A r \in DOMAIN data :
            CallerChildren(data, r) = Without(CallerChildren(edit.data, r), EditedRecords)

(***************************************************************************)
(* C19: after c.appendTo(t), the nodes of c are the last children of the   *)
(* first node of t, in the order of c, moved and not copied: each record   *)
(* is gone from its former parent's children and is among the new parent's *)
(* children once, in the caller's data and in later queries, and each      *)
(* node's index is its position among the new parent's children.           *)
(***************************************************************************)
AppendToMoves ==
    (edit.op = "appendTo" /\ edit.to # NoParent /\ found.nodes # <<>>)
        => LET moved == FoundRecords
               inData == CallerChildren(data, nodes[edit.to].object)
               inNodes == MapSeq(nodes[edit.to].children, LAMBDA n : nodes[n].object)
           IN  /\ ~edit.threw
               /\ Len(inData) >= Len(moved) /\ Suffix(inData, Len(moved)) = moved
               /\ inNodes = inData
               /\ \A i \in 1..Len(found.nodes) :
                    LET n == found.nodes[i].r
                    IN  /\ nodes[n].index = Len(inData) - Len(moved) + i - 1
                        /\ \A r \in DOMAIN data :
                            Count(CallerChildren(data, r), nodes[n].object)
                                = IF r = nodes[edit.to].object THEN 1 ELSE 0
                        /\ \E sel \in EditSelectors : Count(LaterFound(sel), nodes[n].object) = 1

(***************************************************************************)
(* C21: wrapper and data stay in step.  For every Node of the tree, the    *)
(* root of an array context and Nodes of records without a children field  *)
(* included, the records of its child Nodes, in order, are the children    *)
(* sequence of its record in the caller's data, and each child Node's      *)
(* index is its position in that sequence.                                 *)
(***************************************************************************)
ChildRecords(n) == MapSeq(nodes[n].children, LAMBDA c : nodes[c].object)

InStep(n) ==
    /\ ChildRecords(n) = CallerChildren(data, nodes[n].object)
    /\ \A i \in 1..Len(nodes[n].children) : nodes[nodes[n].children[i]].index = i - 1

WrapperAndDataInStep ==
    ~edit.threw => \A n \in DOMAIN nodes : IsWithin(0, n) => InStep(n)

(***************************************************************************)
(* C22: removing is idempotent.  remove on Nodes that were removed already *)
(* changes no children sequence, in the wrappers or in the caller's data,  *)
(* and raises no error.                                                    *)
(***************************************************************************)
RemoveIsIdempotent ==
    edit.op = "removeAgain" =>
        /\ ~edit.threw
        /\ \A r \in DOMAIN data : CallerChildren(data, r) = CallerChildren(edit.data, r)
        /\ \A n \in DOMAIN nodes : nodes[n].children = edit.nodes[n].children

(***************************************************************************)
(* C23: parseSelector throws only in the redundant-combinator case (two    *)
(* '>' with no part between them); every other selector, one with          *)
(* characters outside the grammar included, yields a part sequence.  Such  *)
(* a character (the comma here) is skipped as whitespace is: the parse is  *)
(* the parse of the selector with a space in the character's place.        *)
(***************************************************************************)
\* two combinator pieces with no part piece between them
RedundantPieces(ps) ==
    \E i, j \in 1..Len(ps) :
        /\ i < j
        /\ ps[i].kind = "combinator" /\ ps[j].kind = "combinator"
        /\ \A k \in (i + 1)..(j - 1) : ps[k].kind # "part"

\* a text with a space in the place of every comma
AsWhitespace(s) == [i \in 1..Len(s) |-> IF s[i] = "," THEN " " ELSE s[i]]

PartAsWhitespace(part) ==
    [part EXCEPT !.source = AsWhitespace(@),
                 !.value = AsWhitespace(@),
                 !.condition = IF @ = <<>> THEN @
                               ELSE <<[@[1] EXCEPT !.value = AsWhitespace(@)]>>]

UnrecognisedSkippedLikeWhitespace ==
    scan.status # "scanning" =>
        LET spaced == ParseSelector(AsWhitespace(selector))
        IN  /\ scan.status = "threw" => RedundantPieces(pieces)
            /\ scan.status = spaced.status
            /\ scan.errorAt = spaced.errorAt
            /\ Len(scan.returned) = Len(spaced.returned)
            /\ scan.status = "returned" =>
                    MapSeq(scan.returned[1], PartAsWhitespace) = spaced.returned[1]

\* a comma with a part on either side and no whitespace was parsed; and a comma
\* between two combinators made the call throw
CommaBetweenPartsParsed ==
    /\ scan.status = "returned"
    /\ Len(pieces) = 3
    /\ pieces[1].kind = "part" /\ pieces[1].sep = <<>> /\ pieces[1].condition = <<>>
    /\ pieces[2].name = <<",">> /\ pieces[2].sep = <<>>
    /\ pieces[3].kind = "part"
    /\ Len(scan.returned[1]) = 2

(***************************************************************************)
(* The chaining specification: c.find(s1) on the wrapped collection, then  *)
(* find(s2) on the Selection that came back.  A Selection is a Collection  *)
(* (its prototype is made from Collection.prototype), so getCollection     *)
(* hands it to the loop as it is.  selector holds s1, then s1 + ' ' + s2.  *)
(***************************************************************************)
ChainSelectors == Names

FindInSelection ==
    /\ locator.status = "built"
    /\ found.status = "returned"
    /\ target.kind = "collection"
    /\ selector \in ChainSelectors
    /\ \E s2 \in ChainSelectors :
        /\ selector' = selector \o <<" ">> \o s2
        /\ scan' = ParseSelector(s2)
        /\ locator' = [status |-> "built", parts |-> MapSeq(scan'.returned[1], LocatorPart)]
        /\ target' = [kind |-> "collection", items |-> MapSeq(found.nodes, LAMBDA e : e.r)]
        /\ found' = LocatorFind(locator'.parts, target')
    /\ UNCHANGED <<pieces, data, context, options, nodes, call, edit>>

NewChainLocator == NewLocatorFrom(ChainSelectors)

NextChain == NewChainLocator \/ FindInCollection \/ FindInSelection

SpecChain == Init /\ [][NextChain]_vars

(***************************************************************************)
(* C24: chained find agrees with the descendant combinator.  For single-   *)
(* part selectors s1 and s2, c.find(s1).find(s2) returns the records that  *)
(* c.find(s1 + ' ' + s2) returns, in the same order.                       *)
(***************************************************************************)
Chained == Len(selector) > 1 /\ Ran

\* c.find(s1 + ' ' + s2), selector being s1 + ' ' + s2
Combined == Query(selector)

ChainedFindAgrees ==
    Chained =>
        /\ found.status = Combined.status
        /\ FoundRecords = MapSeq(Combined.nodes, ElemRecord)

====
